---- MODULE Spec2Model ----
(***************************************************************************)
(* Model of yojimbo_serialize.h: the unified serialize directives that run *)
(* on a write, read or measure bit stream.                                 *)
(*                                                                         *)
(* The directives (serialize_int, serialize_bits, serialize_bool,          *)
(* serialize_string, serialize_int_relative, serialize_ack_relative,       *)
(* serialize_sequence_relative ...) are translated from the header.  The   *)
(* stream classes they call into (yojimbo_stream.h: SerializeInteger,      *)
(* SerializeBits, SerializeBytes, SerializeCheck and the IsWriting /       *)
(* IsReading flags) are not part of the header; they are modelled from the *)
(* written specification of the bit-stream contract.                       *)
(*                                                                         *)
(* A C++ function that returns bool and may hit yojimbo_assert is modelled *)
(* as an operator that returns a record                                    *)
(*     [s |-> the stream afterwards, ret |-> "true" | "false" | "assert",  *)
(*      value |-> the by-reference output afterwards].                     *)
(* A serialize_* macro is modelled the same way; ret = "true" then means   *)
(* "fell through to the next statement", "false" that the macro executed   *)
(* `return false` in the enclosing function.                               *)
(***************************************************************************)
EXTENDS Integers, Sequences, FiniteSets, TLC

VARIABLES
    op,        \* the directive the caller exercises
    arg,       \* the caller's arguments (values, ranges, buffer size)
    ms,        \* outcome of running the directive on a measure stream
    wr,        \* outcome of running the directive on a write stream
    wire,      \* the bits the read stream is constructed over
    origin,    \* where the wire comes from: "none", "writer" or "attacker"
    rd         \* outcome of running the directive on a read stream

vars == <<op, arg, ms, wr, wire, origin, rd>>

\* the outcome of a call that has not been made
NotRun == [ret |-> "none"]

Ran(outcome) == outcome.ret # "none"

(***************************************************************************)
(* Bounds of the model.                                                    *)
(***************************************************************************)
\* differences are taken within Spread of every bucket boundary
Spread == 1
\* longest bit pattern an attacker injects without any write
MaxRawLen == 4
\* largest buffer_size passed to serialize_string
MaxBufferSize == 4
\* largest max - min of a range passed to serialize_int
MaxIntWidth == 5
\* largest number of fields of an object
MaxFields == 3

(***************************************************************************)
(* Unsigned 32 bit values.  TLC integers are 32 bit signed, so a uint32_t  *)
(* is kept as two 16 bit halves and its arithmetic is done modulo 2^32 on  *)
(* the halves.                                                             *)
(***************************************************************************)
Wrap16 == 65536

U32(n) == [hi |-> n \div Wrap16, lo |-> n % Wrap16]

\* the value as an integer; only used where the value is below 2^31
U32Val(x) == x.hi * Wrap16 + x.lo

U32Lt(a, b) == a.hi < b.hi \/ (a.hi = b.hi /\ a.lo < b.lo)

U32Sub(a, b) ==
    LET lo == a.lo - b.lo
        borrow == IF lo < 0 THEN 1 ELSE 0
    IN  [hi |-> (a.hi - b.hi - borrow) % Wrap16, lo |-> lo % Wrap16]

U32Add(a, b) ==
    LET lo == a.lo + b.lo
        carry == lo \div Wrap16
    IN  [hi |-> (a.hi + b.hi + carry) % Wrap16, lo |-> lo % Wrap16]

\* x <= c for a small integer constant c
U32Le(x, c) == x.hi < 32768 /\ U32Val(x) <= c

\* the low `bits` bits of x, least significant first
ToBits(x, bits) ==
    [i \in 1..bits |->
        IF i <= 16 THEN (x.lo \div 2^(i-1)) % 2 ELSE (x.hi \div 2^(i-17)) % 2]

RECURSIVE BitsVal(_, _, _)
BitsVal(b, from, to) ==
    IF from > to THEN 0 ELSE b[from] + 2 * BitsVal(b, from + 1, to)

FromBits(b) ==
    [hi |-> IF Len(b) > 16 THEN BitsVal(b, 17, Len(b)) ELSE 0,
     lo |-> BitsVal(b, 1, IF Len(b) > 16 THEN 16 ELSE Len(b))]

(***************************************************************************)
(* The bit-stream contract.                                                *)
(***************************************************************************)
Stream(kind, writing, reading, bits) ==
    [kind |-> kind, isWriting |-> writing, isReading |-> reading,
     data |-> bits, pos |-> 0, bitsProcessed |-> 0, calls |-> <<>>]

WriteStream == Stream("Write", TRUE, FALSE, <<>>)

ReadStream(bits) == Stream("Read", FALSE, TRUE, bits)

\* The measure stream counts bits and neither emits nor consumes any.  The
\* specification of the contract gives it IsWriting = IsReading = FALSE;
\* the directive documentation ("the string to serialize write/measure")
\* treats the measured value as an input, as a stream with IsWriting = TRUE
\* does.  Both are admitted; the caller of a measure picks the flag.
MeasureStream(writing) == Stream("Measure", writing, FALSE, <<>>)

Call(prim, a, b, ok) == [prim |-> prim, a |-> a, b |-> b, ok |-> ok]

Logged(s, c) == [s EXCEPT !.calls = Append(@, c)]

\* number of bits needed for a value in [0, max - min]
RECURSIVE BitsFor(_, _)
BitsFor(range, n) == IF 2^n > range THEN n ELSE BitsFor(range, n + 1)

bits_required(min, max) == IF min = max THEN 0 ELSE BitsFor(max - min, 1)

\* Emit, consume or count one run of bits.
Run(s, bitseq, n, prim, a, b) ==
    CASE s.kind = "Write" ->
            [s |-> Logged([s EXCEPT !.data = @ \o bitseq,
                                    !.bitsProcessed = @ + n],
                          Call(prim, a, b, TRUE)),
             ok |-> TRUE, got |-> <<>>]
      [] s.kind = "Measure" ->
            [s |-> Logged([s EXCEPT !.bitsProcessed = @ + n],
                          Call(prim, a, b, TRUE)),
             ok |-> TRUE, got |-> <<>>]
      [] s.kind = "Read" ->
            IF s.pos + n > Len(s.data)
            THEN [s |-> Logged(s, Call(prim, a, b, FALSE)),
                  ok |-> FALSE, got |-> <<>>]
            ELSE [s |-> Logged([s EXCEPT !.pos = @ + n,
                                         !.bitsProcessed = @ + n],
                               Call(prim, a, b, TRUE)),
                  ok |-> TRUE, got |-> SubSeq(s.data, s.pos + 1, s.pos + n)]

\* bool SerializeBits( uint32_t & value, int bits )
SerializeBits(s, value, bits) ==
    LET done(r) ==
            [s |-> r.s, ok |-> r.ok,
             value |-> IF r.ok /\ s.kind = "Read" THEN FromBits(r.got) ELSE value]
    IN  done(Run(s, ToBits(value, bits), bits, "SerializeBits", bits, 0))

\* bool SerializeInteger( int32_t & value, int32_t min, int32_t max ):
\* the value is carried as value - min in bits_required( min, max ) bits.
SerializeInteger(s, value, min, max) ==
    LET done(r) ==
            [s |-> r.s, ok |-> r.ok,
             value |-> IF r.ok /\ s.kind = "Read"
                       THEN U32Val(FromBits(r.got)) + min ELSE value]
        run(bits) ==
            done(Run(s, ToBits(U32(value - min), bits), bits,
                     "SerializeInteger", min, max))
    IN  run(bits_required(min, max))

\* the bytes of a run as bits, eight per byte, and back
RECURSIVE BytesToBits(_, _)
BytesToBits(data, bytes) ==
    IF bytes = 0 THEN <<>>
    ELSE BytesToBits(data, bytes - 1) \o ToBits(U32(data[bytes]), 8)

BitsToBytes(b, bytes) ==
    [i \in 1..bytes |-> BitsVal(b, 8 * (i - 1) + 1, 8 * i)]

\* bool SerializeBytes( uint8_t * data, int bytes ): a run of bytes * 8 bits
SerializeBytes(s, data, bytes) ==
    LET done(r) ==
            [s |-> r.s, ok |-> r.ok,
             data |-> IF r.ok /\ s.kind = "Read" THEN BitsToBytes(r.got, bytes)
                                                 ELSE <<>>]
    IN  done(Run(s, BytesToBits(data, bytes), 8 * bytes, "SerializeBytes", bytes, 0))

\* bool SerializeCheck(): the writer emits a fixed sentinel, the reader
\* fails unless it finds it
CheckSentinel == <<1, 0, 1, 0>>

SerializeCheck(s) ==
    LET n == Len(CheckSentinel)
        done(r) ==
            IF r.ok /\ s.kind = "Read" /\ r.got # CheckSentinel
            THEN [s |-> [r.s EXCEPT !.calls[Len(s.calls) + 1].ok = FALSE],
                  ok |-> FALSE]
            ELSE [s |-> r.s, ok |-> r.ok]
    IN  done(Run(s, CheckSentinel, n, "SerializeCheck", 0, 0))

(***************************************************************************)
(* The directives of yojimbo_serialize.h.  In the operators below a local  *)
(* operator named after a variable of the source (r, f, i ...) is the rest *)
(* of the function after the call that produced that variable.            *)
(***************************************************************************)
Ret(s, ret, value) == [s |-> s, ret |-> ret, value |-> value]

\* serialize_int without the range check after the read
serialize_int_unchecked(s, value, min, max) ==
    LET after(r) ==
            IF ~r.ok THEN Ret(r.s, "false", value)
            ELSE IF s.isReading THEN Ret(r.s, "true", r.value)
            ELSE Ret(r.s, "true", value)
    IN  IF ~(min < max) THEN Ret(s, "assert", value)
        ELSE IF s.isWriting /\ ~(value >= min /\ value <= max)
        THEN Ret(s, "assert", value)
        ELSE after(SerializeInteger(s, IF s.isWriting THEN value ELSE 0, min, max))

\* serialize_int with the writer's range test made after the stream call
serialize_int_late(s, value, min, max) ==
    LET after(r) ==
            IF s.isWriting /\ ~(value >= min /\ value <= max)
            THEN Ret(r.s, "assert", value)
            ELSE IF ~r.ok THEN Ret(r.s, "false", value)
            ELSE IF s.isReading
            THEN IF r.value < min \/ r.value > max
                 THEN Ret(r.s, "false", r.value)
                 ELSE Ret(r.s, "true", r.value)
            ELSE Ret(r.s, "true", value)
    IN  IF ~(min < max) THEN Ret(s, "assert", value)
        ELSE after(SerializeInteger(s, IF s.isWriting THEN value ELSE 0, min, max))

\* #define serialize_int( stream, value, min, max )
serialize_int(s, value, min, max) ==
    LET after(r) ==
            IF ~r.ok THEN Ret(r.s, "false", value)
            ELSE IF s.isReading
            THEN IF r.value < min \/ r.value > max
                 THEN Ret(r.s, "false", r.value)
                 ELSE Ret(r.s, "true", r.value)
            ELSE Ret(r.s, "true", value)
    IN  IF ~(min < max) THEN Ret(s, "assert", value)
        ELSE IF s.isWriting /\ ~(value >= min /\ value <= max)
        THEN Ret(s, "assert", value)
        ELSE after(SerializeInteger(s, IF s.isWriting THEN value ELSE 0, min, max))

\* #define serialize_bits( stream, value, bits )
serialize_bits(s, value, bits) ==
    LET after(r) ==
            IF ~r.ok THEN Ret(r.s, "false", value)
            ELSE IF s.isReading THEN Ret(r.s, "true", r.value)
            ELSE Ret(r.s, "true", value)
    IN  IF ~(bits > 0) \/ ~(bits <= 32) THEN Ret(s, "assert", value)
        ELSE after(SerializeBits(s, IF s.isWriting THEN value ELSE U32(0), bits))

\* #define serialize_bool( stream, value )
serialize_bool(s, value) ==
    LET after(r) ==
            IF r.ret # "true" THEN Ret(r.s, r.ret, value)
            ELSE IF s.isReading THEN Ret(r.s, "true", r.value # U32(0))
            ELSE Ret(r.s, "true", value)
    IN  after(serialize_bits(s, IF s.isWriting /\ value THEN U32(1) ELSE U32(0), 1))

\* #define serialize_uint32( stream, value )
serialize_uint32(s, value) == serialize_bits(s, value, 32)

\* Buckets with `difference < 6` written as the first flag's test
BucketsStrictFlag ==
    << [limit |-> 5,     min |-> 2,    max |-> 6],
       [limit |-> 23,    min |-> 7,    max |-> 23],
       [limit |-> 280,   min |-> 24,   max |-> 280],
       [limit |-> 4377,  min |-> 281,  max |-> 4377],
       [limit |-> 69914, min |-> 4378, max |-> 69914] >>

\* Buckets with the last bucket ending at 4378 + 65535 - 1
BucketsShortLast ==
    << [limit |-> 6,     min |-> 2,    max |-> 6],
       [limit |-> 23,    min |-> 7,    max |-> 23],
       [limit |-> 280,   min |-> 24,   max |-> 280],
       [limit |-> 4377,  min |-> 281,  max |-> 4377],
       [limit |-> 69913, min |-> 4378, max |-> 69913] >>

\* The five payload buckets of serialize_int_relative_internal after the
\* one-bit bucket: the flag is `difference <= limit`, the payload is
\* serialize_int( stream, difference, min, max ).
Buckets ==
    << [limit |-> 6,     min |-> 2,    max |-> 6],
       [limit |-> 23,    min |-> 7,    max |-> 23],
       [limit |-> 280,   min |-> 24,   max |-> 280],
       [limit |-> 4377,  min |-> 281,  max |-> 4377],
       [limit |-> 69914, min |-> 4378, max |-> 69914] >>

\* twoBits .. sixteenBits (bucket k), then the raw 32 bit fallback
RECURSIVE RelativeFrom(_, _, _, _, _)
RelativeFrom(s, k, previous, current, difference) ==
    LET raw(r) ==
            IF r.ret # "true" THEN Ret(r.s, r.ret, current)
            ELSE Ret(r.s, "true", IF s.isReading THEN r.value ELSE current)
        payload(i) ==
            IF i.ret # "true" THEN Ret(i.s, i.ret, current)
            ELSE Ret(i.s, "true",
                     IF s.isReading THEN U32Add(previous, U32(i.value))
                                    ELSE current)
        flag(f, b) ==
            IF f.ret # "true" THEN Ret(f.s, f.ret, current)
            ELSE IF f.value
            THEN payload(serialize_int(f.s, U32Val(difference), b.min, b.max))
            ELSE RelativeFrom(f.s, k + 1, previous, current, difference)
    IN  IF k > Len(Buckets)
        THEN raw(serialize_uint32(s, current))
        ELSE flag(serialize_bool(s, s.isWriting /\ U32Le(difference, Buckets[k].limit)),
                  Buckets[k])

\* serialize_int_relative_internal with `difference <= 2` as the test of
\* the one-bit flag
serialize_int_relative_wide_one(s, previous, current) ==
    LET rest(f, difference) ==
            IF f.ret # "true" THEN Ret(f.s, f.ret, current)
            ELSE IF f.value
            THEN Ret(f.s, "true",
                     IF s.isReading THEN U32Add(previous, U32(1)) ELSE current)
            ELSE RelativeFrom(f.s, 1, previous, current, difference)
        oneBit(difference) ==
            rest(serialize_bool(s, s.isWriting /\ U32Le(difference, 2)), difference)
    IN  IF s.isWriting /\ ~U32Lt(previous, current) THEN Ret(s, "assert", current)
        ELSE oneBit(IF s.isWriting THEN U32Sub(current, previous) ELSE U32(0))

\* template <typename Stream, typename T> bool
\* serialize_int_relative_internal( Stream & stream, T previous, T & current )
\* with T = uint32_t
serialize_int_relative_internal(s, previous, current) ==
    LET rest(f, difference) ==
            IF f.ret # "true" THEN Ret(f.s, f.ret, current)
            ELSE IF f.value
            THEN Ret(f.s, "true",
                     IF s.isReading THEN U32Add(previous, U32(1)) ELSE current)
            ELSE RelativeFrom(f.s, 1, previous, current, difference)
        oneBit(difference) ==
            rest(serialize_bool(s, s.isWriting /\ difference = U32(1)), difference)
    IN  IF s.isWriting /\ ~U32Lt(previous, current) THEN Ret(s, "assert", current)
        ELSE oneBit(IF s.isWriting THEN U32Sub(current, previous) ELSE U32(0))

\* #define read_int( stream, value, min, max )
read_int(s, value, min, max) ==
    LET after(r) ==
            IF ~r.ok THEN Ret(r.s, "false", value)
            ELSE IF r.value < min \/ r.value > max
                 THEN Ret(r.s, "false", r.value)
                 ELSE Ret(r.s, "true", r.value)
    IN  IF ~(min < max) THEN Ret(s, "assert", value)
        ELSE after(SerializeInteger(s, 0, min, max))

\* #define write_int( stream, value, min, max )
write_int(s, value, min, max) ==
    LET after(r) ==
            IF ~r.ok THEN Ret(r.s, "false", value) ELSE Ret(r.s, "true", value)
    IN  IF ~(min < max) \/ ~(value >= min) \/ ~(value <= max)
        THEN Ret(s, "assert", value)
        ELSE after(SerializeInteger(s, value, min, max))

\* serialize_uint64_internal with the result of the first run ignored
serialize_uint64_unchecked(s, value) ==
    LET high(h, lo) ==
            IF h.ret # "true" THEN Ret(h.s, h.ret, value)
            ELSE Ret(h.s, "true",
                     IF s.isReading THEN [hi |-> h.value, lo |-> lo] ELSE value)
        low(l) ==
            high(serialize_bits(l.s, IF s.isWriting THEN value.hi ELSE U32(0), 32),
                 l.value)
    IN  low(serialize_bits(s, IF s.isWriting THEN value.lo ELSE U32(0), 32))

\* serialize_uint64_internal with the high half serialized first
serialize_uint64_high_first(s, value) ==
    LET low(l, hi) ==
            IF l.ret # "true" THEN Ret(l.s, l.ret, value)
            ELSE Ret(l.s, "true",
                     IF s.isReading THEN [hi |-> hi, lo |-> l.value] ELSE value)
        high(h) ==
            IF h.ret # "true" THEN Ret(h.s, h.ret, value)
            ELSE low(serialize_bits(h.s, IF s.isWriting THEN value.lo ELSE U32(0), 32),
                     h.value)
    IN  high(serialize_bits(s, IF s.isWriting THEN value.hi ELSE U32(0), 32))

\* template <typename Stream> bool
\* serialize_uint64_internal( Stream & stream, uint64_t & value );
\* a uint64_t is the record of its two 32 bit halves
serialize_uint64_internal(s, value) ==
    LET high(h, lo) ==
            IF h.ret # "true" THEN Ret(h.s, h.ret, value)
            ELSE Ret(h.s, "true",
                     IF s.isReading THEN [hi |-> h.value, lo |-> lo] ELSE value)
        low(l) ==
            IF l.ret # "true" THEN Ret(l.s, l.ret, value)
            ELSE high(serialize_bits(l.s, IF s.isWriting THEN value.hi ELSE U32(0), 32),
                      l.value)
    IN  low(serialize_bits(s, IF s.isWriting THEN value.lo ELSE U32(0), 32))

\* #define serialize_uint64( stream, value )
serialize_uint64(s, value) == serialize_uint64_internal(s, value)

(***************************************************************************)
(* A double is the record of the fields of its IEEE 754 representation:    *)
(* sign (1 bit), exponent (11 bits) and fraction (52 bits: top, the upper  *)
(* 20, and low, the lower 32).  The members of union DoubleInt share their *)
(* storage: int_value is the 64 bit pattern of double_value.               *)
(***************************************************************************)
int_value(double) ==
    [hi |-> [hi |-> double.sign * 32768 + double.exponent * 16
                    + double.fraction.top \div Wrap16,
             lo |-> double.fraction.top % Wrap16],
     lo |-> double.fraction.low]

double_value(int) ==
    [sign |-> int.hi.hi \div 32768,
     exponent |-> (int.hi.hi % 32768) \div 16,
     fraction |-> [top |-> (int.hi.hi % 16) * Wrap16 + int.hi.lo,
                   low |-> int.lo]]

\* template <typename Stream> bool
\* serialize_double_internal( Stream & stream, double & value )
serialize_double_internal(s, value) ==
    LET after(tmp) ==
            IF tmp.ret # "true" THEN Ret(tmp.s, tmp.ret, value)
            ELSE Ret(tmp.s, "true",
                     IF s.isReading THEN double_value(tmp.value) ELSE value)
    IN  after(serialize_uint64(s, IF s.isWriting THEN int_value(value)
                                  ELSE [hi |-> U32(0), lo |-> U32(0)]))

\* #define serialize_check( stream )
serialize_check(s) ==
    LET after(r) == Ret(r.s, IF r.ok THEN "true" ELSE "false", 0)
    IN  after(SerializeCheck(s))

(***************************************************************************)
(* A char buffer of buffer_size bytes is a record: mem is its content      *)
(* (mem[i + 1] is string[i]) and stores the set of indices the directive   *)
(* has stored to, inside the buffer or not.                                *)
(***************************************************************************)
Buffer(bytes) == [mem |-> bytes, stores |-> {}]

\* string[index] = byte; a store past the end of the buffer is an overrun
\* and only recorded
Store(string, index, byte) ==
    [mem |-> IF index + 1 \in DOMAIN string.mem
             THEN [string.mem EXCEPT ![index + 1] = byte] ELSE string.mem,
     stores |-> string.stores \cup {index}]

RECURSIVE StoreBytes(_, _, _)
StoreBytes(string, data, bytes) ==
    IF bytes = 0 THEN string
    ELSE Store(StoreBytes(string, data, bytes - 1), bytes - 1, data[bytes])

\* strlen( string ): the index of the first zero byte
RECURSIVE strlen_from(_, _)
strlen_from(mem, i) ==
    IF i > Len(mem) \/ mem[i] = 0 THEN i - 1 ELSE strlen_from(mem, i + 1)

strlen(mem) == strlen_from(mem, 1)

\* #define serialize_bytes( stream, data, bytes ) over serialize_bytes_internal
serialize_bytes(s, string, bytes) ==
    LET after(r) ==
            IF ~r.ok THEN Ret(r.s, "false", string)
            ELSE Ret(r.s, "true",
                     IF s.kind = "Read" THEN StoreBytes(string, r.data, bytes)
                                        ELSE string)
    IN  after(SerializeBytes(s, string.mem, bytes))

\* serialize_string_internal taking the length only when bits are emitted
serialize_string_write_only(s, string, buffer_size) ==
    LET bytes(b, length) ==
            IF b.ret # "true" THEN Ret(b.s, b.ret, string)
            ELSE Ret(b.s, "true",
                     IF s.isReading THEN Store(b.value, length, 0) ELSE b.value)
        int(i) ==
            IF i.ret # "true" THEN Ret(i.s, i.ret, string)
            ELSE bytes(serialize_bytes(i.s, string, i.value), i.value)
        body(length) ==
            IF s.kind = "Write" /\ ~(length < buffer_size - 1)
            THEN Ret(s, "assert", string)
            ELSE int(serialize_int(s, length, 0, buffer_size - 1))
    IN  body(IF s.kind = "Write" THEN strlen(string.mem) ELSE 0)

\* serialize_string_internal with the length in [0, buffer_size]
serialize_string_wide(s, string, buffer_size) ==
    LET bytes(b, length) ==
            IF b.ret # "true" THEN Ret(b.s, b.ret, string)
            ELSE Ret(b.s, "true",
                     IF s.isReading THEN Store(b.value, length, 0) ELSE b.value)
        int(i) ==
            IF i.ret # "true" THEN Ret(i.s, i.ret, string)
            ELSE bytes(serialize_bytes(i.s, string, i.value), i.value)
        body(length) ==
            IF s.isWriting /\ ~(length < buffer_size - 1)
            THEN Ret(s, "assert", string)
            ELSE int(serialize_int(s, length, 0, buffer_size))
    IN  body(IF s.isWriting THEN strlen(string.mem) ELSE 0)

\* template <typename Stream> bool
\* serialize_string_internal( Stream & stream, char * string, int buffer_size )
serialize_string_internal(s, string, buffer_size) ==
    LET bytes(b, length) ==
            IF b.ret # "true" THEN Ret(b.s, b.ret, string)
            ELSE Ret(b.s, "true",
                     IF s.isReading THEN Store(b.value, length, 0) ELSE b.value)
        int(i) ==
            IF i.ret # "true" THEN Ret(i.s, i.ret, string)
            ELSE bytes(serialize_bytes(i.s, string, i.value), i.value)
        body(length) ==
            IF s.isWriting /\ ~(length < buffer_size - 1)
            THEN Ret(s, "assert", string)
            ELSE int(serialize_int(s, length, 0, buffer_size - 1))
    IN  body(IF s.isWriting THEN strlen(string.mem) ELSE 0)

\* #define serialize_int_relative( stream, previous, current )
serialize_int_relative(s, previous, current) ==
    serialize_int_relative_internal(s, previous, current)

\* ack_delta = sequence - ack on both branches
AckDeltaNoLift(sequence, ack) == sequence - ack

\* ack_delta as the writer computes it:
\* if ( ack < sequence ) ack_delta = sequence - ack;
\* else ack_delta = (int)sequence + 65536 - ack;
AckDelta(sequence, ack) ==
    IF ack < sequence THEN sequence - ack ELSE sequence + Wrap16 - ack

\* ack_in_range = ack_delta < 64
AckInRangeStrict(ack_delta) == ack_delta < 64

\* ack_in_range = ack_delta <= 64
AckInRange(ack_delta) == ack_delta <= 64

\* ack = sequence - ack_delta without the wrap to 16 bits
AckFromDeltaNoWrap(sequence, ack_delta) == sequence - ack_delta

\* ack = sequence - ack_delta, stored to a uint16_t
AckFromDelta(sequence, ack_delta) == (sequence - ack_delta) % Wrap16

\* template <typename Stream> bool
\* serialize_ack_relative_internal( Stream & stream, uint16_t sequence, uint16_t & ack )
serialize_ack_relative_internal(s, sequence, ack) ==
    LET raw(r) ==
            IF r.ret # "true" THEN Ret(r.s, r.ret, ack)
            ELSE Ret(r.s, "true",
                     IF s.isReading THEN U32Val(r.value) % Wrap16 ELSE ack)
        delta(i) ==
            IF i.ret # "true" THEN Ret(i.s, i.ret, ack)
            ELSE Ret(i.s, "true",
                     IF s.isReading THEN AckFromDelta(sequence, i.value) ELSE ack)
        flag(f, ack_delta) ==
            IF f.ret # "true" THEN Ret(f.s, f.ret, ack)
            ELSE IF f.value
            THEN delta(serialize_int(f.s, ack_delta, 1, 64))
            ELSE raw(serialize_bits(f.s, U32(ack), 16))
        body(ack_delta) ==
            IF s.isWriting /\ ~(ack_delta > 0) THEN Ret(s, "assert", ack)
            ELSE IF s.isWriting /\ ~((sequence - ack_delta) % Wrap16 = ack)
            THEN Ret(s, "assert", ack)
            ELSE flag(serialize_bool(s, s.isWriting /\ AckInRange(ack_delta)),
                      ack_delta)
    IN  body(IF s.isWriting THEN AckDelta(sequence, ack) ELSE 0)

\* b = sequence2, never lifted over sequence1
UnwrapNever(sequence1, sequence2) == U32(sequence2)

\* b lifted when sequence1 < sequence2
UnwrapReversed(sequence1, sequence2) ==
    U32(sequence2 + (IF sequence1 < sequence2 THEN Wrap16 ELSE 0))

\* b lifted over sequence1 also when sequence1 == sequence2
UnwrapInclusive(sequence1, sequence2) ==
    U32(sequence2 + (IF sequence1 >= sequence2 THEN Wrap16 ELSE 0))

\* uint32_t b = sequence2 + ( ( sequence1 > sequence2 ) ? 65536 : 0 )
Unwrap(sequence1, sequence2) ==
    U32(sequence2 + (IF sequence1 > sequence2 THEN Wrap16 ELSE 0))

\* if ( b >= 65536 ) b -= 65536; sequence2 = uint16_t( b )
Fold(b) ==
    (IF ~U32Lt(b, U32(Wrap16)) THEN U32Sub(b, U32(Wrap16)) ELSE b).lo

\* serialize_sequence_relative_internal storing sequence2 = uint16_t( b )
\* whatever the delta codec returned
serialize_sequence_relative_unchecked(s, sequence1, sequence2) ==
    LET written(r) == Ret(r.s, r.ret, sequence2)
        other(r) == Ret(r.s, r.ret, Fold(r.value))
    IN  IF s.isWriting
        THEN written(serialize_int_relative(s, U32(sequence1),
                                            Unwrap(sequence1, sequence2)))
        ELSE other(serialize_int_relative(s, U32(sequence1), U32(0)))

\* template <typename Stream> bool
\* serialize_sequence_relative_internal( Stream & stream, uint16_t sequence1, uint16_t & sequence2 )
serialize_sequence_relative_internal(s, sequence1, sequence2) ==
    LET written(r) == Ret(r.s, r.ret, sequence2)
        other(r) ==
            IF r.ret # "true" THEN Ret(r.s, r.ret, sequence2)
            ELSE Ret(r.s, "true", Fold(r.value))
    IN  IF s.isWriting
        THEN written(serialize_int_relative(s, U32(sequence1),
                                            Unwrap(sequence1, sequence2)))
        ELSE other(serialize_int_relative(s, U32(sequence1), U32(0)))

(***************************************************************************)
(* An object with a templated Serialize function.  The function body is a  *)
(* sequence of directives, one per field; a field is a record [d, value]   *)
(* and the value of a nested object is its own sequence of fields.         *)
(***************************************************************************)
RECURSIVE Serialize(_, _, _)

\* #define serialize_object( stream, object )
serialize_object(s, object) == Serialize(s, object, 1)

\* the directive that the Serialize function runs for field f
Directive(s, f) ==
    CASE f.d = "int"    -> serialize_int(s, f.value, 0, 5)
      [] f.d = "bits"   -> serialize_bits(s, f.value, 3)
      [] f.d = "check"  -> serialize_check(s)
      [] f.d = "object" -> serialize_object(s, f.value)

\* template <typename Stream> bool Serialize( Stream & stream ), from the
\* directive of field k on
Serialize(s, object, k) ==
    LET next(r) ==
            IF r.ret # "true"
            THEN Ret(r.s, r.ret, [object EXCEPT ![k].value = r.value])
            ELSE Serialize(r.s, [object EXCEPT ![k].value = r.value], k + 1)
    IN  IF k > Len(object) THEN Ret(s, "true", object)
        ELSE next(Directive(s, object[k]))

\* the read entry point running the fields in the opposite order
SerializeInternalOwnRead(s, object) ==
    IF s.isReading
    THEN Serialize(s, [k \in 1..Len(object) |-> object[Len(object) + 1 - k]], 1)
    ELSE Serialize(s, object, 1)

\* YOJIMBO_VIRTUAL_SERIALIZE_FUNCTIONS: bool SerializeInternal( class
\* yojimbo::ReadStream / WriteStream / MeasureStream & stream )
\* { return Serialize( stream ); }
SerializeInternal(s, object) == Serialize(s, object, 1)

(***************************************************************************)
(* The callers.  A caller holds the arguments of one directive; it may     *)
(* measure it, write it, and read it back from the wire.  Between the      *)
(* write and the read the wire is in the hands of the network: an attacker *)
(* may cut it short or flip one of its bits, or deliver bits nobody wrote. *)
(***************************************************************************)
\* differences at and around the bucket boundaries
Boundaries == {1, 6, 7, 23, 24, 280, 281, 4377, 4378, 69914, 69915}

Differences ==
    {d \in UNION {(c - Spread)..(c + Spread) : c \in Boundaries} : d >= 0}

Previous == {U32(0), [hi |-> 32767, lo |-> 65535], [hi |-> 65533, lo |-> 65000]}

\* what the by-reference output holds before a read
Untouched == 4242

\* how far behind previous a caller's current may lie
Behind == {1, 70000}

\* previous <= current at the differences above, and the calls a writer
\* must not make: current behind previous
InitIntRelative ==
    /\ op = "int_relative"
    /\ \/ \E p \in Previous, d \in Differences :
            arg = [previous |-> p, current |-> U32Add(p, U32(d)),
                   initial |-> U32(Untouched)]
       \/ \E p \in Previous, d \in Behind :
            arg = [previous |-> U32Add(p, U32(d)), current |-> p,
                   initial |-> U32(Untouched)]

Sequences == {0, 10, 100, 65530, 65535}

AckDeltas ==
    {d \in UNION {(c - Spread)..(c + Spread) : c \in {1, 64, Wrap16}} :
        d >= 1 /\ d <= Wrap16} \cup {16, 100, 32768}

InitAckRelative ==
    /\ op = "ack_relative"
    /\ \E q \in Sequences, d \in AckDeltas :
         arg = [sequence |-> q, ack |-> (q - d) % Wrap16, initial |-> Untouched]

SequenceDeltas == {d \in Differences : d < Wrap16} \cup {16, 32768, Wrap16 - 1}

InitSequenceRelative ==
    /\ op = "sequence_relative"
    /\ \E q \in Sequences, d \in SequenceDeltas :
         arg = [sequence1 |-> q, sequence2 |-> (q + d) % Wrap16,
                initial |-> Untouched]

\* the strings a caller passes: at most buffer_size - 1 characters, a
\* terminator, and whatever the rest of the buffer holds
Chars == {97, 98}

Garbage == 255

Strings(n) == UNION {[1..k -> Chars] : k \in 0..n}

InitString ==
    /\ op = "string"
    /\ \E n \in 1..MaxBufferSize :
         \E str \in Strings(n - 1) :
           arg = [buffer_size |-> n,
                  string |-> Buffer(str \o <<0>> \o [k \in 1..(n - 1 - Len(str)) |-> Garbage]),
                  initial |-> Buffer([k \in 1..n |-> Garbage])]

\* ranges [min, max], also the empty one, and values in and around them
InitInt ==
    /\ op \in {"int", "read_int"}
    /\ \E min \in {-3, 2} :
         \E max \in min..(min + MaxIntWidth) :
           \E value \in (min - 1)..(max + 1) :
             arg = [value |-> value, min |-> min, max |-> max,
                    initial |-> Untouched]

Uint64s ==
    {[hi |-> h, lo |-> l] :
        h, l \in {U32(0), U32(1), [hi |-> 65535, lo |-> 65535]}}
    \cup {[hi |-> [hi |-> 4660, lo |-> 22136], lo |-> [hi |-> 39612, lo |-> 57072]]}

InitUint64 ==
    /\ op = "uint64"
    /\ \E value \in Uint64s :
         arg = [value |-> value, initial |-> [hi |-> U32(Untouched), lo |-> U32(Untouched)]]

\* doubles and the 64 bit patterns IEEE 754 gives them: 1.0, -2.5, -0.0,
\* a quiet NaN, the smallest denormal and the largest one
Double(sign, exponent, top, low) ==
    [sign |-> sign, exponent |-> exponent, fraction |-> [top |-> top, low |-> low]]

Doubles ==
    { [value |-> Double(0, 1023, 0, U32(0)),
       pattern |-> [hi |-> [hi |-> 16368, lo |-> 0], lo |-> U32(0)]],
      [value |-> Double(1, 1024, 262144, U32(0)),
       pattern |-> [hi |-> [hi |-> 49156, lo |-> 0], lo |-> U32(0)]],
      [value |-> Double(1, 0, 0, U32(0)),
       pattern |-> [hi |-> [hi |-> 32768, lo |-> 0], lo |-> U32(0)]],
      [value |-> Double(0, 2047, 524288, U32(0)),
       pattern |-> [hi |-> [hi |-> 32760, lo |-> 0], lo |-> U32(0)]],
      [value |-> Double(0, 0, 0, U32(1)),
       pattern |-> [hi |-> U32(0), lo |-> U32(1)]],
      [value |-> Double(0, 0, 1048575, [hi |-> 65535, lo |-> 65535]),
       pattern |-> [hi |-> [hi |-> 15, lo |-> 65535],
                    lo |-> [hi |-> 65535, lo |-> 65535]]] }

InitDouble ==
    /\ op = "double"
    /\ \E d \in Doubles :
         arg = [value |-> d.value, pattern |-> d.pattern,
                initial |-> Double(0, 0, 0, U32(Untouched))]

\* the objects: every sequence of at most MaxFields fields, each an integer
\* in [0, 5], an integrity check or a nested object (three bits, a check)
Layouts == UNION {[1..k -> {"int", "check", "object"}] : k \in 1..MaxFields}

Inner(fresh) ==
    << [d |-> "bits", value |-> IF fresh THEN U32(0) ELSE U32(5)],
       [d |-> "check", value |-> 0] >>

Field(d, fresh) ==
    CASE d = "int"    -> [d |-> d, value |-> IF fresh THEN 0 ELSE 3]
      [] d = "check"  -> [d |-> d, value |-> 0]
      [] d = "object" -> [d |-> d, value |-> Inner(fresh)]

Object(layout, fresh) == [k \in 1..Len(layout) |-> Field(layout[k], fresh)]

InitObject ==
    /\ op = "object"
    /\ \E layout \in Layouts :
         arg = [layout |-> layout, object |-> Object(layout, FALSE),
                initial |-> Object(layout, TRUE)]

Init ==
    /\ \/ InitInt
       \/ InitUint64
       \/ InitDouble
       \/ InitString
       \/ InitObject
       \/ InitIntRelative
       \/ InitAckRelative
       \/ InitSequenceRelative
    /\ ms = NotRun /\ wr = NotRun /\ rd = NotRun
    /\ wire = <<>> /\ origin = "none"

\* a measure: nothing is emitted
Measured(outcome) ==
    /\ ~Ran(ms) /\ ~Ran(wr) /\ origin = "none"
    /\ ms' = outcome
    /\ UNCHANGED <<op, arg, wr, wire, origin, rd>>

\* a write: a successful one puts its bits on the wire
Written(outcome) ==
    /\ ~Ran(wr) /\ origin = "none"
    /\ wr' = outcome
    /\ IF outcome.ret = "true"
       THEN wire' = outcome.s.data /\ origin' = "writer"
       ELSE UNCHANGED <<wire, origin>>
    /\ UNCHANGED <<op, arg, ms, rd>>

\* a read of what is on the wire
Read(outcome) ==
    /\ origin # "none" /\ ~Ran(rd)
    /\ rd' = outcome
    /\ UNCHANGED <<op, arg, ms, wr, wire, origin>>

MeasureInt ==
    /\ op = "int"
    /\ \E w \in BOOLEAN :
         Measured(serialize_int(MeasureStream(w), arg.value, arg.min, arg.max))

WriteInt ==
    /\ op = "int"
    /\ Written(serialize_int(WriteStream, arg.value, arg.min, arg.max))

ReadInt ==
    /\ op = "int"
    /\ Read(serialize_int(ReadStream(wire), arg.initial, arg.min, arg.max))

WriteIntMacro ==
    /\ op = "read_int"
    /\ Written(write_int(WriteStream, arg.value, arg.min, arg.max))

ReadIntMacro ==
    /\ op = "read_int"
    /\ Read(read_int(ReadStream(wire), arg.initial, arg.min, arg.max))

MeasureUint64 ==
    /\ op = "uint64"
    /\ \E w \in BOOLEAN :
         Measured(serialize_uint64_internal(MeasureStream(w), arg.value))

WriteUint64 ==
    /\ op = "uint64"
    /\ Written(serialize_uint64_internal(WriteStream, arg.value))

ReadUint64 ==
    /\ op = "uint64"
    /\ Read(serialize_uint64_internal(ReadStream(wire), arg.initial))

MeasureDouble ==
    /\ op = "double"
    /\ \E w \in BOOLEAN :
         Measured(serialize_double_internal(MeasureStream(w), arg.value))

WriteDouble ==
    /\ op = "double"
    /\ Written(serialize_double_internal(WriteStream, arg.value))

ReadDouble ==
    /\ op = "double"
    /\ Read(serialize_double_internal(ReadStream(wire), arg.initial))

MeasureObject ==
    /\ op = "object"
    /\ \E w \in BOOLEAN :
         Measured(SerializeInternal(MeasureStream(w), arg.object))

WriteObject ==
    /\ op = "object"
    /\ Written(SerializeInternal(WriteStream, arg.object))

ReadObject ==
    /\ op = "object"
    /\ Read(SerializeInternal(ReadStream(wire), arg.initial))

MeasureIntRelative ==
    /\ op = "int_relative"
    /\ \E w \in BOOLEAN :
         Measured(serialize_int_relative_internal(MeasureStream(w), arg.previous, arg.current))

WriteIntRelative ==
    /\ op = "int_relative"
    /\ Written(serialize_int_relative_internal(WriteStream, arg.previous, arg.current))

ReadIntRelative ==
    /\ op = "int_relative"
    /\ Read(serialize_int_relative_internal(ReadStream(wire), arg.previous, arg.initial))

MeasureAckRelative ==
    /\ op = "ack_relative"
    /\ \E w \in BOOLEAN :
         Measured(serialize_ack_relative_internal(MeasureStream(w), arg.sequence, arg.ack))

WriteAckRelative ==
    /\ op = "ack_relative"
    /\ Written(serialize_ack_relative_internal(WriteStream, arg.sequence, arg.ack))

ReadAckRelative ==
    /\ op = "ack_relative"
    /\ Read(serialize_ack_relative_internal(ReadStream(wire), arg.sequence, arg.initial))

MeasureSequenceRelative ==
    /\ op = "sequence_relative"
    /\ \E w \in BOOLEAN :
         Measured(serialize_sequence_relative_internal(MeasureStream(w), arg.sequence1, arg.sequence2))

WriteSequenceRelative ==
    /\ op = "sequence_relative"
    /\ Written(serialize_sequence_relative_internal(WriteStream, arg.sequence1, arg.sequence2))

ReadSequenceRelative ==
    /\ op = "sequence_relative"
    /\ Read(serialize_sequence_relative_internal(ReadStream(wire), arg.sequence1, arg.initial))

MeasureString ==
    /\ op = "string"
    /\ \E w \in BOOLEAN :
         Measured(serialize_string_internal(MeasureStream(w), arg.string, arg.buffer_size))

WriteString ==
    /\ op = "string"
    /\ Written(serialize_string_internal(WriteStream, arg.string, arg.buffer_size))

ReadString ==
    /\ op = "string"
    /\ Read(serialize_string_internal(ReadStream(wire), arg.initial, arg.buffer_size))

\* the network cuts the written bits short or flips one of them (what a
\* measure found has no part in it: tampering is followed on the runs
\* that did not measure)
Tamper ==
    /\ origin = "writer" /\ ~Ran(rd) /\ ~Ran(ms)
    /\ \/ \E n \in 0..(Len(wire) - 1) : wire' = SubSeq(wire, 1, n)
       \/ \E n \in 1..Len(wire) : wire' = [wire EXCEPT ![n] = 1 - @]
    /\ origin' = "attacker"
    /\ UNCHANGED <<op, arg, ms, wr, rd>>

\* a peer sends bits that nobody wrote
BitStrings(n) == UNION {[1..k -> {0, 1}] : k \in 0..n}

Inject ==
    /\ origin = "none" /\ ~Ran(wr) /\ ~Ran(ms)
    /\ wire' \in BitStrings(MaxRawLen)
    /\ origin' = "attacker"
    /\ UNCHANGED <<op, arg, ms, wr, rd>>

\* a peer sends a string nobody wrote: any length the length field can
\* carry, and that many characters
ForgeString ==
    /\ op = "string" /\ arg.buffer_size >= 2
    /\ origin = "none" /\ ~Ran(wr) /\ ~Ran(ms)
    /\ \E length \in 0..(2^bits_required(0, arg.buffer_size - 1) - 1) :
         wire' = ToBits(U32(length), bits_required(0, arg.buffer_size - 1))
                 \o BytesToBits([k \in 1..length |-> 97], length)
    /\ origin' = "attacker"
    /\ UNCHANGED <<op, arg, ms, wr, rd>>

Next ==
    \/ MeasureInt
    \/ WriteInt
    \/ ReadInt
    \/ WriteIntMacro
    \/ ReadIntMacro
    \/ MeasureUint64
    \/ WriteUint64
    \/ ReadUint64
    \/ MeasureDouble
    \/ WriteDouble
    \/ ReadDouble
    \/ MeasureObject
    \/ WriteObject
    \/ ReadObject
    \/ MeasureIntRelative
    \/ WriteIntRelative
    \/ ReadIntRelative
    \/ MeasureAckRelative
    \/ WriteAckRelative
    \/ ReadAckRelative
    \/ MeasureSequenceRelative
    \/ WriteSequenceRelative
    \/ ReadSequenceRelative
    \/ MeasureString
    \/ WriteString
    \/ ReadString
    \/ Tamper
    \/ Inject
    \/ ForgeString

Spec == Init /\ [][Next]_vars

(***************************************************************************)
(* The claims.                                                             *)
(***************************************************************************)
Zeros(n) == [i \in 1..n |-> 0]

\* the difference current - previous of an int_relative caller
Difference == U32Val(U32Sub(arg.current, arg.previous))

\* C1: delta codec round trip.  For uint32_t previous < current the write
\* succeeds, and the read of the written bits with the same previous
\* succeeds and yields exactly current, whichever bucket or the raw
\* fallback was taken.
C1_RelativeRoundTrip ==
    (op = "int_relative" /\ U32Lt(arg.previous, arg.current)) =>
        /\ Ran(wr) => wr.ret = "true"
        /\ (origin = "writer" /\ Ran(rd)) =>
               rd.ret = "true" /\ rd.value = arg.current

\* a round trip through the raw fallback, with previous above 2^31
C1_Witness ==
    /\ op = "int_relative" /\ origin = "writer" /\ Ran(rd)
    /\ arg.previous.hi >= 32768 /\ Difference > 69914
    /\ Len(wire) = 38 /\ rd.ret = "true" /\ rd.value = arg.current

\* the (flag bits, payload range, payload width) the table gives for D
C2_Table(D) ==
    CASE D = 1                   -> [flags |-> 1, min |-> 1,    max |-> 1,     width |-> 0]
      [] D >= 2 /\ D <= 6        -> [flags |-> 2, min |-> 2,    max |-> 6,     width |-> 3]
      [] D >= 7 /\ D <= 23       -> [flags |-> 3, min |-> 7,    max |-> 23,    width |-> 5]
      [] D >= 24 /\ D <= 280     -> [flags |-> 4, min |-> 24,   max |-> 280,   width |-> 9]
      [] D >= 281 /\ D <= 4377   -> [flags |-> 5, min |-> 281,  max |-> 4377,  width |-> 13]
      [] D >= 4378 /\ D <= 69914 -> [flags |-> 6, min |-> 4378, max |-> 69914, width |-> 17]

\* the stream calls of `flags` flags and then, if there is a payload, of
\* one bounded integer in [min, max]
C2_Calls(e) ==
    [i \in 1..e.flags |-> Call("SerializeBits", 1, 0, TRUE)]
    \o (IF e.width = 0 THEN <<>>
        ELSE <<Call("SerializeInteger", e.min, e.max, TRUE)>>)

\* C2: delta bucket exactness.  A write of difference D emits the flags
\* and payload of the table: all flags before the matching one false, the
\* matching one true, none after it, then D - min in the payload width;
\* and for D > 69914 six false flags and the raw 32 bit current.
C2_BucketExactness ==
    (op = "int_relative" /\ Ran(wr) /\ wr.ret = "true") =>
        IF Difference > 69914
        THEN /\ wr.s.data = Zeros(6) \o ToBits(arg.current, 32)
             /\ wr.s.calls = [i \in 1..6 |-> Call("SerializeBits", 1, 0, TRUE)]
                             \o <<Call("SerializeBits", 32, 0, TRUE)>>
        ELSE /\ wr.s.data = Zeros(C2_Table(Difference).flags - 1) \o <<1>>
                            \o ToBits(U32(Difference - C2_Table(Difference).min),
                                      C2_Table(Difference).width)
             /\ wr.s.calls = C2_Calls(C2_Table(Difference))

\* the largest difference of the last bucket: six flags and 17 payload bits
C2_Witness ==
    /\ op = "int_relative" /\ Ran(wr) /\ wr.ret = "true"
    /\ Difference = 69914 /\ Len(wr.s.data) = 23

Decoded(min, max) ==
    min + U32Val(FromBits(SubSeq(wire, 1, bits_required(min, max))))

Delivers(min, max) == Len(wire) >= bits_required(min, max)

\* C4: range rejection.  A read by serialize_int or read_int with
\* min < max hits no assertion, succeeds only with a decoded value in
\* [min, max], which it returns, and returns false for every decoded value
\* outside [min, max].
C4_RangeRejection ==
    (op \in {"int", "read_int"} /\ Ran(rd) /\ arg.min < arg.max) =>
        /\ rd.ret # "assert"
        /\ rd.ret = "true" =>
               /\ Delivers(arg.min, arg.max)
               /\ Decoded(arg.min, arg.max) \in arg.min..arg.max
               /\ rd.value = Decoded(arg.min, arg.max)
        /\ (Delivers(arg.min, arg.max)
              /\ Decoded(arg.min, arg.max) \notin arg.min..arg.max) =>
               rd.ret = "false"

\* serialize_int rejects a delivered value above max
C4_Witness ==
    /\ op = "int" /\ Ran(rd) /\ arg.min < arg.max
    /\ Delivers(arg.min, arg.max) /\ Decoded(arg.min, arg.max) > arg.max
    /\ rd.ret = "false"

\* the characters of a buffer up to its terminator
Content(mem) == SubSeq(mem, 1, strlen(mem))

\* C5: string maximum length.  For buffer_size >= 2 a string of exactly
\* buffer_size - 1 characters is accepted by the write and read back with
\* the same characters and a terminator.
C5_MaxLengthRoundTrip ==
    (op = "string" /\ arg.buffer_size >= 2
        /\ strlen(arg.string.mem) = arg.buffer_size - 1) =>
        /\ Ran(wr) => wr.ret = "true"
        /\ (origin = "writer" /\ Ran(rd)) =>
               rd.ret = "true" /\ Content(rd.value.mem) = Content(arg.string.mem)

\* C6: string read stays in bounds.  A read never stores outside
\* [0, buffer_size - 1]; a delivered length above buffer_size - 1 returns
\* false with nothing stored; a successful read stores the delivered
\* length's characters at 0 .. length - 1 and the terminator at
\* length <= buffer_size - 1.
C6_StringReadInBounds ==
    (op = "string" /\ Ran(rd)) =>
        /\ rd.value.stores \subseteq 0..(arg.buffer_size - 1)
        /\ (Delivers(0, arg.buffer_size - 1)
              /\ Decoded(0, arg.buffer_size - 1) > arg.buffer_size - 1) =>
               rd.ret = "false" /\ rd.value.stores = {}
        /\ rd.ret = "true" =>
               /\ Decoded(0, arg.buffer_size - 1) <= arg.buffer_size - 1
               /\ rd.value.stores = 0..Decoded(0, arg.buffer_size - 1)
               /\ strlen(rd.value.mem) <= Decoded(0, arg.buffer_size - 1)
               /\ rd.value.mem[Decoded(0, arg.buffer_size - 1) + 1] = 0

\* a read that fills the whole buffer: buffer_size - 1 characters and the
\* terminator in the last byte
C6_Witness ==
    /\ op = "string" /\ Ran(rd) /\ rd.ret = "true" /\ arg.buffer_size >= 3
    /\ rd.value.stores = 0..(arg.buffer_size - 1)
    /\ strlen(rd.value.mem) = arg.buffer_size - 1

\* C7: ack-relative path selection.  The writer's delta is sequence - ack
\* when ack < sequence and sequence + 65536 - ack otherwise; for a delta
\* in [1, 64] it emits a true flag and delta in [1, 64] (6 bits, 7 in
\* all), otherwise a false flag and the raw 16 bit ack (17 in all).
C7_AckPathSelection ==
    (op = "ack_relative" /\ Ran(wr)) =>
        LET delta == IF arg.ack < arg.sequence
                     THEN arg.sequence - arg.ack
                     ELSE arg.sequence + 65536 - arg.ack
        IN  /\ wr.ret = "true"
            /\ (delta >= 1 /\ delta <= 64) =>
                   /\ wr.s.data = <<1>> \o ToBits(U32(delta - 1), 6)
                   /\ wr.s.calls = << Call("SerializeBits", 1, 0, TRUE),
                                      Call("SerializeInteger", 1, 64, TRUE) >>
                   /\ Len(wr.s.data) = 7
            /\ ~(delta >= 1 /\ delta <= 64) =>
                   /\ wr.s.data = <<0>> \o ToBits(U32(arg.ack), 16)
                   /\ wr.s.calls = << Call("SerializeBits", 1, 0, TRUE),
                                      Call("SerializeBits", 16, 0, TRUE) >>
                   /\ Len(wr.s.data) = 17
            /\ (arg.sequence = 10 /\ arg.ack = 65530) =>
                   wr.s.data = <<1>> \o ToBits(U32(15), 6)
            /\ (arg.sequence = 100 /\ arg.ack = 0) => Len(wr.s.data) = 17

\* the wrapped pair of the example takes the in-range path
C7_Witness ==
    /\ op = "ack_relative" /\ Ran(wr) /\ wr.ret = "true"
    /\ arg.sequence = 10 /\ arg.ack = 65530 /\ Len(wr.s.data) = 7

\* C8: ack-relative round trip.  For every 16 bit sequence and ack, equal
\* and wrapped pairs included, the write succeeds and the read of the
\* written bits with the same sequence succeeds and yields ack.
C8_AckRoundTrip ==
    op = "ack_relative" =>
        /\ Ran(wr) => wr.ret = "true"
        /\ (origin = "writer" /\ Ran(rd)) =>
               rd.ret = "true" /\ rd.value = arg.ack

\* a wrapped pair read back through the in-range path
C8_Witness ==
    /\ op = "ack_relative" /\ origin = "writer" /\ Ran(rd)
    /\ arg.ack > arg.sequence /\ Len(wire) = 7
    /\ rd.ret = "true" /\ rd.value = arg.ack

\* C9: sequence-relative round trip.  For distinct 16 bit sequence1 and
\* sequence2 the write is the delta write of sequence1 and sequence2,
\* lifted by 65536 when sequence1 > sequence2, and the read of the written
\* bits with the same sequence1 succeeds and yields sequence2.
C9_SequenceRoundTrip ==
    (op = "sequence_relative" /\ arg.sequence1 # arg.sequence2) =>
        /\ Ran(wr) =>
               /\ wr.ret = "true"
               /\ wr.s.data =
                      serialize_int_relative_internal(
                          WriteStream, U32(arg.sequence1),
                          U32(IF arg.sequence1 > arg.sequence2
                              THEN arg.sequence2 + 65536
                              ELSE arg.sequence2)).s.data
        /\ (origin = "writer" /\ Ran(rd)) =>
               rd.ret = "true" /\ rd.value = arg.sequence2

\* the wrapped pair 65530, 10 read back
C9_Witness ==
    /\ op = "sequence_relative" /\ origin = "writer" /\ Ran(rd)
    /\ arg.sequence1 = 65530 /\ arg.sequence2 = 10
    /\ rd.ret = "true" /\ rd.value = 10

\* a call of a stream primitive that returned failure is the last call
\* the routine made, and the routine returned false
ShortCircuits(outcome) ==
    \A i \in 1..Len(outcome.s.calls) :
        ~outcome.s.calls[i].ok =>
            i = Len(outcome.s.calls) /\ outcome.ret = "false"

\* C10: short-circuit failure propagation.  In every routine, nested
\* objects and integrity checks included, the first stream primitive that
\* fails makes the top-level call return false, and no stream primitive is
\* invoked after it.
C10_ShortCircuit ==
    /\ (Ran(ms) /\ ms.ret # "assert") => ShortCircuits(ms)
    /\ (Ran(wr) /\ wr.ret # "assert") => ShortCircuits(wr)
    /\ (Ran(rd) /\ rd.ret # "assert") => ShortCircuits(rd)

\* an integrity check fails after earlier fields were read, and the
\* directives behind it are not run
C10_Witness ==
    /\ op = "object" /\ Ran(rd) /\ rd.ret = "false"
    /\ Len(rd.s.calls) >= 3 /\ Len(rd.s.calls) < Len(wr.s.calls)
    /\ rd.s.calls[Len(rd.s.calls)] = Call("SerializeCheck", 0, 0, FALSE)
    /\ \A i \in 1..(Len(rd.s.calls) - 1) : rd.s.calls[i].ok

\* the parameters of the caller's directive are valid: min < max for a
\* bounded integer, room for a character in a string buffer
ValidRange ==
    /\ op \in {"int", "read_int"} => arg.min < arg.max
    /\ op = "string" => arg.buffer_size >= 2

\* C11: write-side violations are fatal.  A write of serialize_int (or
\* write_int) with a value outside [min, max], and a write of
\* serialize_int_relative with previous >= current, ends in the fatal
\* assertion with no stream primitive called and no bit emitted, never in
\* a false return; and no read with valid parameters, whatever the wire
\* holds, ends in an assertion.
C11_WriteFatal ==
    /\ (op \in {"int", "read_int"} /\ Ran(wr) /\ arg.min < arg.max
          /\ (arg.value < arg.min \/ arg.value > arg.max)) =>
           wr.ret = "assert" /\ wr.s.calls = <<>> /\ wr.s.data = <<>>
    /\ (op = "int_relative" /\ Ran(wr) /\ ~U32Lt(arg.previous, arg.current)) =>
           wr.ret = "assert" /\ wr.s.calls = <<>> /\ wr.s.data = <<>>
    /\ (Ran(rd) /\ ValidRange) => rd.ret # "assert"

\* a writer asked for a value above max, and for a current behind previous
C11_Witness ==
    /\ Ran(wr) /\ wr.ret = "assert" /\ wr.s.calls = <<>>
    /\ \/ op = "int" /\ arg.min < arg.max /\ arg.value > arg.max
       \/ op = "int_relative" /\ U32Lt(arg.current, arg.previous)

\* the two 32 bit runs of a 64 bit value
C12_Runs == << Call("SerializeBits", 32, 0, TRUE), Call("SerializeBits", 32, 0, TRUE) >>

\* the 64 bit pattern a caller of serialize_uint64 or serialize_double holds
C12_Pattern == IF op = "double" THEN arg.pattern ELSE arg.value

\* C12: 64 bit layout and round trip.  A write of a 64 bit value emits
\* its low 32 bits as the first 32 bit run and its high 32 bits as the
\* second; a successful read has consumed two 32 bit runs and holds
\* (second << 32) | first; the read of the written bits yields the value
\* written; and serialize_double puts the same bits on the wire as
\* serialize_uint64 does for the double's 64 bit pattern, and reads the
\* double back.
C12_Uint64Layout ==
    op \in {"uint64", "double"} =>
        /\ Ran(wr) =>
               /\ wr.ret = "true"
               /\ wr.s.calls = C12_Runs
               /\ wr.s.data = ToBits(C12_Pattern.lo, 32) \o ToBits(C12_Pattern.hi, 32)
        /\ (Ran(rd) /\ rd.ret = "true") =>
               /\ rd.s.calls = C12_Runs /\ Len(wire) >= 64
               /\ (IF op = "double" THEN int_value(rd.value) ELSE rd.value) =
                      [hi |-> FromBits(SubSeq(wire, 33, 64)),
                       lo |-> FromBits(SubSeq(wire, 1, 32))]
        /\ (origin = "writer" /\ Ran(rd)) =>
               rd.ret = "true" /\ rd.value = arg.value

\* 0x123456789ABCDEF0 written low half first and read back
C12_Witness ==
    /\ op = "uint64" /\ origin = "writer" /\ Ran(rd) /\ rd.ret = "true"
    /\ arg.value = [hi |-> [hi |-> 4660, lo |-> 22136], lo |-> [hi |-> 39612, lo |-> 57072]]
    /\ SubSeq(wire, 1, 8) = <<0, 0, 0, 0, 1, 1, 1, 1>>
    /\ rd.value = arg.value

IsPrefix(a, b) == Len(a) <= Len(b) /\ SubSeq(b, 1, Len(a)) = a

\* the bits a write of `current` after `previous` emits
Code(previous, current) ==
    serialize_int_relative_internal(WriteStream, previous, current)

\* the read of bits followed by more bits stops where the bits end and
\* yields current
StopsAfter(bits, previous, current) ==
    LET stops(r) ==
            r.ret = "true" /\ r.s.pos = Len(bits) /\ r.value = current
    IN  stops(serialize_int_relative_internal(
                  ReadStream(bits \o <<1, 0, 1>>), previous, U32(Untouched)))

\* C14: the delta code is prefix-free and injective.  For a fixed
\* previous the bits written for a valid current and the bits written
\* for any other valid current differ, and neither begins with the other;
\* a reader of the written bits, alone or followed by further bits, stops
\* at the position where the writer stopped.
C14_PrefixFree ==
    (op = "int_relative" /\ Ran(wr) /\ wr.ret = "true") =>
        /\ \A d \in Differences :
               (d >= 1 /\ U32Add(arg.previous, U32(d)) # arg.current) =>
                   /\ Code(arg.previous, U32Add(arg.previous, U32(d))).ret = "true"
                   /\ ~IsPrefix(wr.s.data,
                                Code(arg.previous, U32Add(arg.previous, U32(d))).s.data)
                   /\ ~IsPrefix(Code(arg.previous, U32Add(arg.previous, U32(d))).s.data,
                                wr.s.data)
        /\ StopsAfter(wr.s.data, arg.previous, arg.current)
        /\ (origin = "writer" /\ Ran(rd)) => rd.s.pos = Len(wr.s.data)

\* the first difference of the last bucket, whose payload is all zeros:
\* the reader stops after 6 flags and 17 payload bits
C14_Witness ==
    /\ op = "int_relative" /\ origin = "writer" /\ Ran(rd)
    /\ Difference = 4378 /\ wr.s.data = Zeros(5) \o <<1>> \o Zeros(17)
    /\ rd.s.pos = 23

\* C15: no out-of-range value escapes a failed integer read.  Whenever a
\* read by serialize_int or read_int returns false, because the stream
\* primitive failed or because the decoded value is outside [min, max],
\* the caller's variable holds the value it held before the call.
C15_FailedReadKeepsValue ==
    (op \in {"int", "read_int"} /\ Ran(rd) /\ rd.ret = "false") =>
        rd.value = arg.initial

\* the pair ( a, b ) that a sequence_relative writer hands to the delta
\* codec, as integers
Lifted ==
    [a |-> arg.sequence1,
     b |-> arg.sequence2 + (IF arg.sequence1 > arg.sequence2 THEN 65536 ELSE 0)]

\* C16: sequence-relative write precondition.  The pair a writer hands to
\* the delta codec satisfies previous < current exactly when sequence1 and
\* sequence2 differ, and exactly then the write succeeds; for equal
\* sequence numbers the pair is equal and the write ends in the fatal
\* assertion with no stream call made and no bit written.
C16_SequencePrecondition ==
    (op = "sequence_relative" /\ Ran(wr)) =>
        /\ Lifted.a < Lifted.b <=> arg.sequence1 # arg.sequence2
        /\ wr.ret = "true" <=> arg.sequence1 # arg.sequence2
        /\ wr.ret = "true" =>
               wr.s.data = Code(U32(Lifted.a), U32(Lifted.b)).s.data
        /\ arg.sequence1 = arg.sequence2 =>
               /\ Lifted.a = Lifted.b
               /\ wr.ret = "assert" /\ wr.s.calls = <<>> /\ wr.s.data = <<>>

\* a writer asked to encode 65535 after 65535
C16_Witness ==
    /\ op = "sequence_relative" /\ Ran(wr)
    /\ arg.sequence1 = 65535 /\ arg.sequence2 = 65535
    /\ wr.ret = "assert" /\ wr.s.data = <<>>

\* acks below, at and above any sequence number, at both ends of the range
C17_Acks == {0, 1, 9, 10, 11, 99, 100, 101, 32767, 32768, 65529, 65530, 65531, 65534, 65535}

\* C17: the ack-relative write assertions hold for all inputs.  For 16
\* bit sequence and ack the writer's ack_delta lies in [1, 65536] and
\* uint16( sequence - ack_delta ) is ack, so no write (and no measure as a
\* writer) ends in an assertion, and on the in-range path the value handed
\* to the integer directive of range [1, 64] lies in [1, 64].
C17_AckAssertions ==
    op = "ack_relative" =>
        /\ \A ack \in C17_Acks \cup {arg.ack} :
               /\ AckDelta(arg.sequence, ack) >= 1
               /\ AckDelta(arg.sequence, ack) <= 65536
               /\ (arg.sequence - AckDelta(arg.sequence, ack)) % 65536 = ack
               /\ serialize_ack_relative_internal(WriteStream, arg.sequence, ack).ret = "true"
        /\ Ran(wr) => wr.ret = "true"
        /\ (Ran(ms) /\ ms.s.isWriting) => ms.ret = "true"
        /\ (Ran(wr) /\ wr.s.data[1] = 1) =>
               /\ AckDelta(arg.sequence, arg.ack) \in 1..64
               /\ wr.s.calls[2] = Call("SerializeInteger", 1, 64, TRUE)
               /\ wr.s.data = <<1>> \o ToBits(U32(AckDelta(arg.sequence, arg.ack) - 1), 6)

\* ack == sequence: the largest delta, 65536, written on the raw path
C17_Witness ==
    /\ op = "ack_relative" /\ Ran(wr) /\ wr.ret = "true"
    /\ arg.ack = arg.sequence /\ AckDelta(arg.sequence, arg.ack) = 65536
    /\ wr.s.data[1] = 0

\* the number of one bit flags at the head of a sequence of stream calls
RECURSIVE FlagCalls(_, _)
FlagCalls(calls, i) ==
    IF i > Len(calls) \/ calls[i] # Call("SerializeBits", 1, 0, TRUE) THEN i - 1
    ELSE FlagCalls(calls, i + 1)

\* C18: sequence-relative never uses the raw fallback.  For distinct 16
\* bit sequence numbers the difference handed to the delta codec by a
\* writer lies in [1, 65535]; the write emits at most six flags, the last
\* of them true, followed by at most one bounded integer and never by a
\* 32 bit run, and is at most 23 bits long (6 flags and 17 payload bits).
C18_NoRawFallback ==
    (op = "sequence_relative" /\ Ran(wr) /\ arg.sequence1 # arg.sequence2) =>
        /\ Lifted.b - Lifted.a >= 1 /\ Lifted.b - Lifted.a <= 65535
        /\ wr.ret = "true"
        /\ FlagCalls(wr.s.calls, 1) \in 1..6
        /\ wr.s.data[FlagCalls(wr.s.calls, 1)] = 1
        /\ \A i \in 1..(FlagCalls(wr.s.calls, 1) - 1) : wr.s.data[i] = 0
        /\ \A i \in 1..Len(wr.s.calls) : wr.s.calls[i].prim = "SerializeBits" =>
               wr.s.calls[i].a = 1
        /\ Len(wr.s.calls) <= FlagCalls(wr.s.calls, 1) + 1
        /\ Len(wr.s.data) <= 23
        /\ wr.s.data = Code(U32(Lifted.a), U32(Lifted.b)).s.data
        /\ (Lifted.b - Lifted.a = 65535) => Len(wr.s.data) = 23

\* the largest difference, 65535 (sequence2 one behind sequence1), in the
\* last bucket
C18_Witness ==
    /\ op = "sequence_relative" /\ Ran(wr) /\ wr.ret = "true"
    /\ arg.sequence1 = 10 /\ arg.sequence2 = 9
    /\ Len(wr.s.data) = 23 /\ wr.s.data[6] = 1

\* C19: the relative codecs leave their output untouched on failure.
\* Whenever a read by serialize_int_relative, serialize_ack_relative or
\* serialize_sequence_relative returns false (a flag, a payload or a raw
\* run could not be read, or a payload is outside its bucket's range),
\* current, ack or sequence2 holds what it held before the call.
C19_RelativeUntouched ==
    (op \in {"int_relative", "ack_relative", "sequence_relative"}
        /\ Ran(rd) /\ rd.ret # "true") =>
        rd.ret = "false" /\ rd.value = arg.initial

\* a payload outside its bucket's range: every stream call succeeded, the
\* read failed and current is as it was
C19_Witness ==
    /\ op = "int_relative" /\ Ran(rd) /\ rd.ret = "false"
    /\ Len(rd.s.calls) >= 3
    /\ \A i \in 1..Len(rd.s.calls) : rd.s.calls[i].ok
    /\ rd.s.calls[Len(rd.s.calls)].prim = "SerializeInteger"
    /\ rd.value = arg.initial

====
